---- MODULE Spec2Model ----
(***************************************************************************)
(* Model of src/src/entities/asset.py: AssetMetric, AssetType and the      *)
(* catalog of asset types.                                                 *)
(*                                                                         *)
(* Numbers.  Every metric value, bound and variation is an integer number  *)
(* of thousandths (0.08 is 80, 45 is 45000).  A variation_multiplier is a  *)
(* number of tenths (1 is 10).  A jitter and a DefectProbability are       *)
(* numbers of hundredths.  A defect factor is an exact fraction            *)
(* [n |-> .., d |-> ..] with d > 0.                                        *)
(*                                                                         *)
(* Randomness.  random.uniform(a, b) is a choice among GridPoints of       *)
(* [a, b]; random.choice is a choice in its list; uuid.uuid4() is a choice *)
(* in UUIDs that does not read the random module's state.                  *)
(***************************************************************************)
EXTENDS Integers, FiniteSets, Sequences, TLC

VARIABLES
    pc,       \* which call has been made: "start", "constructed", "sampled",
              \* "factored", "scored", "created", "repeated"
    metric,   \* the AssetMetric built by the caller (NoMetric before)
    args,     \* the arguments of the last call
    draws,    \* the values the last call consumed from the random module
    ret,      \* the value the last call returned
    err,      \* the exception the last call raised, "none" if it returned
    event,    \* the Event returned by create_random_event
    draws2,   \* the values the second call of create_random_event consumed
    event2,   \* the Event returned by the second call of create_random_event
    types_obj,  \* the mapping the caller got from get_types(), as it is now
    map_obj,    \* the mapping the caller got from get_type_map(), as it is now
    last_call,  \* what the caller of the catalog did last
    nmut,       \* how many times the caller changed a returned mapping
    script,   \* the setup script that runs: "none" before one is chosen
    fpc,      \* for each run of the script, the API call it makes next
    floc,     \* for each run of the script, its local variables
    remote,   \* what exists on the Fabric service
    log       \* the API calls made so far, in order

assetVars == <<pc, metric, args, draws, ret, err, event, draws2, event2>>
catVars == <<types_obj, map_obj, last_call, nmut>>
fabVars == <<script, fpc, floc, remote, log>>
vars == <<assetVars, catVars, fabVars>>

-----------------------------------------------------------------------------
(* Bounds of the model *)

\* random.uniform(Min, Max) is drawn among UGrid + 1 evenly spaced points
UGrid == 1
\* uuid4 values
NUuid == 2

UUIDs == 1..NUuid

\* the excursion uniform(0.5 * Variation, 1.5 * Variation) and the jitter
\* uniform(0.8, 1.2) are drawn at the two ends of their interval
EndPoints == {0, 1}

\* variation_multiplier values (tenths): 0.1, 1 (the default) and 2
Mults == {1, 10, 20}
\* variation_multiplier values used by create_random_event
EventMults == {10, 20}

-----------------------------------------------------------------------------
(* Exact fractions *)

Abs(x) == IF x < 0 THEN -x ELSE x

RECURSIVE GCD(_, _)
GCD(a, b) == IF b = 0 THEN a ELSE GCD(b, a % b)

\* n / d for d # 0, in lowest terms with a positive denominator
Rat(n, d) ==
    LET g == GCD(Abs(n), Abs(d))
        s == IF d < 0 THEN -1 ELSE 1
    IN  [n |-> (s * n) \div g, d |-> (s * d) \div g]

Zero == [n |-> 0, d |-> 1]

RatLess(x, y) == x.n * y.d < y.n * x.d
RatLeq(x, y) == x.n * y.d <= y.n * x.d

\* round(x) of a fraction x >= 0 to an integer, half to even.  Python's
\* round(x, 2) rounds the binary value of the float correctly; that differs
\* from this only by the direction of an exact decimal tie whose float is
\* inexact.
Round(x) ==
    LET q == x.n \div x.d
        r == x.n - q * x.d
    IN  IF 2 * r < x.d THEN q
        ELSE IF 2 * r > x.d THEN q + 1
        ELSE IF q % 2 = 0 THEN q ELSE q + 1

\* the k-th of g + 1 evenly spaced points of [a, b] (random.uniform(a, b):
\* a + (b - a) * random())
GridPoint(a, b, k, g) == a + ((b - a) * k) \div g

-----------------------------------------------------------------------------
(* AssetMetric *)

\* AssetMetric with Min and Max taken in the wrong order
AssetMetric_swapped(min, max, variation, defectFactor) ==
    [Min |-> max, Max |-> min, Variation |-> variation,
     DefectFactor |-> defectFactor]

AssetMetric(min, max, variation, defectFactor) ==
    [Min |-> min, Max |-> max, Variation |-> variation,
     DefectFactor |-> defectFactor]

NoMetric == [Min |-> 0, Max |-> 0, Variation |-> 0, DefectFactor |-> 0]

\* raw_random_value with the test of the anomaly flag left out
raw_random_value_always_anomalous(self, anomaly, m, u, e, side) ==
    LET anomaly_variation ==
            GridPoint(self.Variation * 10, self.Variation * 30, e, 1) * m
    IN  IF side
        THEN 200 * self.Max + anomaly_variation
        ELSE 200 * self.Min - anomaly_variation

\* raw_random_value that does not multiply the excursion by
\* variation_multiplier
raw_random_value_unscaled(self, anomaly, m, u, e, side) ==
    LET value == 200 * GridPoint(self.Min, self.Max, u, UGrid)
        anomaly_variation ==
            GridPoint(self.Variation * 10, self.Variation * 30, e, 1) * 10
    IN  IF anomaly
        THEN IF side
             THEN 200 * self.Max + anomaly_variation
             ELSE 200 * self.Min - anomaly_variation
        ELSE value

\* value before the floor at 0 and the rounding, in two-hundredths of a
\* thousandth (which keeps 0.5 * Variation * variation_multiplier exact):
\* u, e index the two uniform draws, side is the draw of
\* random.choice([True, False]), m is in tenths
raw_random_value(self, anomaly, m, u, e, side) ==
    LET value == 200 * GridPoint(self.Min, self.Max, u, UGrid)
        \* uniform(Variation * 0.5, Variation * 1.5) * variation_multiplier
        anomaly_variation ==
            GridPoint(self.Variation * 10, self.Variation * 30, e, 1) * m
    IN  IF anomaly
        THEN IF side
             THEN 200 * self.Max + anomaly_variation
             ELSE 200 * self.Min - anomaly_variation
        ELSE value

\* calculate_random_value without the floor at 0
calculate_random_value_unfloored(self, anomaly, m, u, e, side) ==
    LET value == raw_random_value(self, anomaly, m, u, e, side)
    IN  10 * Round([n |-> value, d |-> 2000])

\* round(max(0, value), 2), in thousandths
calculate_random_value(self, anomaly, m, u, e, side) ==
    LET value == raw_random_value(self, anomaly, m, u, e, side)
        floored == IF 0 < value THEN value ELSE 0
    IN  10 * Round([n |-> floored, d |-> 2000])

\* the greatest of 0, a / d and b / d, for d # 0
MaxOverDivisor(a, b, d) ==
    LET sa == IF d < 0 THEN -a ELSE a
        sb == IF d < 0 THEN -b ELSE b
        top == IF sa < sb THEN sb ELSE sa
    IN  Rat(IF top < 0 THEN 0 ELSE top, Abs(d))

\* calc_defect_factor measuring the high side from Min instead of Max
calc_defect_factor_from_min(self, value) ==
    MaxOverDivisor(value - self.Min, self.Min - value, self.DefectFactor)

\* calc_defect_factor without the low side
calc_defect_factor_high_only(self, value) ==
    MaxOverDivisor(value - self.Max, value - self.Max, self.DefectFactor)

\* max(0, (value - Max) / DefectFactor, (Min - value) / DefectFactor),
\* for DefectFactor # 0 (the division raises ZeroDivisionError otherwise)
calc_defect_factor(self, value) ==
    MaxOverDivisor(value - self.Max, self.Min - value, self.DefectFactor)

-----------------------------------------------------------------------------
(* AssetType *)

MetricNames == {"vibration", "temperature", "humidity", "speed"}

AssetType(name, vibration, temperature, humidity, speed) ==
    [Name |-> name, Vibration |-> vibration, Temperature |-> temperature,
     Humidity |-> humidity, Speed |-> speed]

get_types ==
    [k \in {"Assembly", "Press", "Conveyor", "Packaging"} |->
        CASE k = "Assembly" ->
               AssetType("Assembly",
                         AssetMetric(100, 300, 80, 500),
                         AssetMetric(20000, 35000, 3000, 12000),
                         AssetMetric(30000, 70000, 0, 15000),
                         AssetMetric(50000, 100000, 20000, 20000))
          [] k = "Press" ->
               AssetType("Press",
                         AssetMetric(200, 800, 80, 500),
                         AssetMetric(25000, 45000, 5000, 15000),
                         AssetMetric(30000, 70000, 0, 15000),
                         AssetMetric(20000, 60000, 10000, 20000))
          [] k = "Conveyor" ->
               AssetType("Conveyor",
                         AssetMetric(50, 200, 80, 500),
                         AssetMetric(18000, 30000, 2000, 10000),
                         AssetMetric(30000, 70000, 0, 15000),
                         AssetMetric(10000, 50000, 8000, 20000))
          [] k = "Packaging" ->
               AssetType("Packaging",
                         AssetMetric(100, 400, 80, 500),
                         AssetMetric(20000, 40000, 3000, 12000),
                         AssetMetric(30000, 70000, 0, 15000),
                         AssetMetric(30000, 80000, 15000, 20000))]

TypeNames == DOMAIN get_types

\* the AssetMetric of a type for a metric name
MetricOf(self, name) ==
    CASE name = "vibration" -> self.Vibration
      [] name = "temperature" -> self.Temperature
      [] name = "humidity" -> self.Humidity
      [] name = "speed" -> self.Speed

\* vibration_factor * 0.4 + temp_factor * 0.3 + speed_factor * 0.3
weighted_factors(self, vibration, temperature, speed) ==
    LET vibration_factor == calc_defect_factor(self.Vibration, vibration)
        temp_factor == calc_defect_factor(self.Temperature, temperature)
        speed_factor == calc_defect_factor(self.Speed, speed)
    IN  Rat(4 * vibration_factor.n * temp_factor.d * speed_factor.d
                + 3 * temp_factor.n * vibration_factor.d * speed_factor.d
                + 3 * speed_factor.n * vibration_factor.d * temp_factor.d,
            10 * vibration_factor.d * temp_factor.d * speed_factor.d)

\* round(weighted sum * jitter, 2) in hundredths; j indexes the draw of
\* random.uniform(0.8, 1.2), taken in hundredths
rounded_defect_probability(self, vibration, temperature, speed, j) ==
    LET sum == weighted_factors(self, vibration, temperature, speed)
        jitter == GridPoint(80, 120, j, 1)
    IN  Round([n |-> sum.n * jitter, d |-> sum.d])

\* calculate_defect_probability without the clamp to 1.0
calculate_defect_probability_unclamped(self, vibration, temperature, speed, j) ==
    rounded_defect_probability(self, vibration, temperature, speed, j)

\* min(round(.., 2), 1.0), in hundredths
calculate_defect_probability(self, vibration, temperature, speed, j) ==
    LET defect_probability ==
            rounded_defect_probability(self, vibration, temperature, speed, j)
    IN  IF defect_probability < 100 THEN defect_probability ELSE 100

\* The draws of one calculate_random_value call.  Without an anomaly only
\* the first uniform draw u is made; with an anomaly that draw is made and
\* discarded (recorded as 0), then the excursion e and the side are drawn.
MetricDraws(anomaly) ==
    IF anomaly
    THEN {[u |-> 0, e |-> e, side |-> sd] : e \in EndPoints, sd \in BOOLEAN}
    ELSE {[u |-> u, e |-> 0, side |-> FALSE] : u \in 0..UGrid}

\* The four coin flips of the anomaly selection (none when anomaly is false)
CoinDraws(anomaly) ==
    IF anomaly THEN [MetricNames -> BOOLEAN] ELSE {[n \in MetricNames |-> FALSE]}

\* The forced choice among the four names, drawn only if all flips missed
ForcedDraws(anomaly, coins) ==
    IF anomaly /\ \A n \in MetricNames : ~coins[n] THEN MetricNames ELSE {"none"}

\* anomaly_metrics without the forced choice when all four flips miss
anomaly_metrics_unforced(anomaly, coins, forced) ==
    IF anomaly THEN {n \in MetricNames : coins[n]} ELSE {}

\* anomaly_metrics after the selection
anomaly_metrics(anomaly, coins, forced) ==
    IF anomaly
    THEN IF \A n \in MetricNames : ~coins[n]
         THEN {forced}
         ELSE {n \in MetricNames : coins[n]}
    ELSE {}

\* metric_anomaly that forgets the anomaly set
metric_anomaly_ignores_set(anomaly, name, selected) == anomaly

\* the anomaly argument passed to calculate_random_value for a metric
metric_anomaly(anomaly, name, selected) == anomaly /\ name \in selected

\* scored_readings that passes the humidity reading in place of the speed
scored_readings_with_humidity(vibration, temperature, humidity, speed) ==
    <<vibration, temperature, humidity>>

\* the three readings passed to calculate_defect_probability
scored_readings(vibration, temperature, humidity, speed) ==
    <<vibration, temperature, speed>>

\* create_random_event whose jitter comes from the operating system's entropy
\* (the source of uuid4) instead of the random module
create_random_event_entropy_jitter(self, ctx, anomaly, m, d, uuid) ==
    LET selected == anomaly_metrics(anomaly, d.coins, d.forced)
        reading(name) ==
            calculate_random_value(MetricOf(self, name),
                                   metric_anomaly(anomaly, name, selected), m,
                                   d.metric[name].u, d.metric[name].e,
                                   d.metric[name].side)
    IN  [Id |-> uuid,
         AssetId |-> ctx.asset_id,
         ProductId |-> ctx.product_id,
         BatchId |-> ctx.batch_id,
         Vibration |-> reading("vibration"),
         Temperature |-> reading("temperature"),
         Humidity |-> reading("humidity"),
         Speed |-> reading("speed"),
         DefectProbability |->
             calculate_defect_probability(self, reading("vibration"),
                                          reading("temperature"),
                                          reading("speed"),
                                          (uuid - 1) % 2),
         Timestamp |-> ctx.timestamp]

\* the Event built from the arguments, the draws d of the random module and
\* the uuid4 value
create_random_event(self, ctx, anomaly, m, d, uuid) ==
    LET selected == anomaly_metrics(anomaly, d.coins, d.forced)
        reading(name) ==
            calculate_random_value(MetricOf(self, name),
                                   metric_anomaly(anomaly, name, selected), m,
                                   d.metric[name].u, d.metric[name].e,
                                   d.metric[name].side)
        vibration == reading("vibration")
        temperature == reading("temperature")
        humidity == reading("humidity")
        speed == reading("speed")
        scored == scored_readings(vibration, temperature, humidity, speed)
        defect_probability ==
            calculate_defect_probability(self, scored[1], scored[2],
                                         scored[3], d.j)
    IN  [Id |-> uuid,
         AssetId |-> ctx.asset_id,
         ProductId |-> ctx.product_id,
         BatchId |-> ctx.batch_id,
         Vibration |-> vibration,
         Temperature |-> temperature,
         Humidity |-> humidity,
         Speed |-> speed,
         DefectProbability |-> defect_probability,
         Timestamp |-> ctx.timestamp]

-----------------------------------------------------------------------------
(* Inputs *)

\* asset_id, product_id, batch_id, timestamp of a call
Contexts ==
    {[asset_id |-> "A1", product_id |-> "P1", batch_id |-> "B1", timestamp |-> 1]}

\* the metrics of the catalog
CatalogMetrics ==
    {MetricOf(get_types[k], n) : k \in TypeNames, n \in MetricNames}

\* other metrics a caller can build: AssetMetric validates nothing
TestBounds == {-200, 0, 123, 124, 200}
TestVariations == {0, 20}
TestFactors == {-500, 0, 500}
TestMetrics ==
    {AssetMetric(a, b, v, f) : a \in TestBounds, b \in TestBounds,
                               v \in TestVariations, f \in TestFactors}

MetricSpace == CatalogMetrics \cup TestMetrics

\* values given to calc_defect_factor and calculate_defect_probability:
\* around and far from the two bounds of the metric
Offsets == {10, 20, 5000}
ValuesFor(self) ==
    {self.Min - o : o \in Offsets} \cup {self.Max + o : o \in Offsets}
        \cup {self.Min, self.Max, GridPoint(self.Min, self.Max, 1, 2)}

\* nothing returned yet by get_types() / get_type_map()
NoMapping == [k \in {} |-> 0]

\* the caller of the catalog has called nothing
CatInit ==
    /\ types_obj = NoMapping
    /\ map_obj = NoMapping
    /\ last_call = "none"
    /\ nmut = 0

\* the runs of a setup script against one remote workspace service
Runs == {1, 2}

\* the local variables of a run before its first statement (0 is None)
NoLocals ==
    [existing |-> 0, id |-> 0, capacity_id |-> 0, status_code |-> 0,
     success |-> FALSE, yml |-> FALSE, result |-> 0, raised |-> "none",
     notebook_id |-> 0, job_status |-> "none"]

\* a remote service that holds nothing under the names the scripts use
NoRemote ==
    [workspaces |-> {}, capacity |-> 0, assigned |-> {}, folders |-> {},
     environments |-> {}, definitions |-> {}, published |-> {},
     agents |-> {}, notebooks |-> {}, jobs |-> {}]

\* no setup script runs
FabInit ==
    /\ script = "none"
    /\ fpc = [r \in Runs |-> "idle"]
    /\ floc = [r \in Runs |-> NoLocals]
    /\ remote = NoRemote
    /\ log = [r \in Runs |-> <<>>]

NoArgs == [call |-> "none"]
NoDraws == [call |-> "none"]
NoEvent == [Id |-> 0]

-----------------------------------------------------------------------------
(* The calls *)

Init ==
    /\ pc = "start"
    /\ metric = NoMetric
    /\ args = NoArgs
    /\ draws = NoDraws
    /\ ret = 0
    /\ err = "none"
    /\ event = NoEvent
    /\ draws2 = NoDraws
    /\ event2 = NoEvent
    /\ CatInit
    /\ FabInit

\* AssetMetric(Min=.., Max=.., Variation=.., DefectFactor=..): the dataclass
\* constructor stores the four fields and checks nothing
NewAssetMetric ==
    /\ pc = "start"
    /\ \E self \in MetricSpace : metric' = self
    /\ pc' = "constructed"
    /\ err' = "none"
    /\ UNCHANGED <<args, draws, ret, event, draws2, event2>>
    /\ UNCHANGED <<catVars, fabVars>>

\* metric.calculate_random_value(anomaly, variation_multiplier)
CalculateRandomValue ==
    /\ pc = "constructed"
    /\ \E anomaly \in BOOLEAN, m \in Mults :
         \E d \in MetricDraws(anomaly) :
            /\ args' = [call |-> "calculate_random_value",
                        anomaly |-> anomaly, variation_multiplier |-> m]
            /\ draws' = d
            /\ ret' = calculate_random_value(metric, anomaly, m,
                                             d.u, d.e, d.side)
    /\ pc' = "sampled"
    /\ err' = "none"
    /\ UNCHANGED <<metric, event, draws2, event2>>
    /\ UNCHANGED <<catVars, fabVars>>

\* metric.calc_defect_factor(value)
CalcDefectFactor ==
    /\ pc = "constructed"
    /\ \E value \in ValuesFor(metric) :
         /\ args' = [call |-> "calc_defect_factor", value |-> value]
         /\ IF metric.DefectFactor = 0
            THEN /\ err' = "ZeroDivisionError"
                 /\ ret' = 0
            ELSE /\ err' = "none"
                 /\ ret' = calc_defect_factor(metric, value)
    /\ pc' = "factored"
    /\ UNCHANGED <<metric, draws, event, draws2, event2>>
    /\ UNCHANGED <<catVars, fabVars>>

\* get_types()[name].calculate_defect_probability(vibration, temperature, speed)
CalculateDefectProbability ==
    /\ pc = "start"
    /\ \E name \in TypeNames :
         LET self == get_types[name] IN
         \E vibration \in ValuesFor(self.Vibration),
            temperature \in ValuesFor(self.Temperature),
            speed \in ValuesFor(self.Speed),
            j \in EndPoints :
            /\ args' = [call |-> "calculate_defect_probability",
                        self |-> name, vibration |-> vibration,
                        temperature |-> temperature, speed |-> speed]
            /\ draws' = [j |-> j]
            /\ ret' = calculate_defect_probability(self, vibration,
                                                   temperature, speed, j)
    /\ pc' = "scored"
    /\ err' = "none"
    /\ UNCHANGED <<metric, event, draws2, event2>>
    /\ UNCHANGED <<catVars, fabVars>>

\* get_types()[name].create_random_event(asset_id, product_id, batch_id,
\*                                       timestamp, anomaly, variation_multiplier)
CreateRandomEvent ==
    /\ pc = "start"
    /\ \E name \in TypeNames, ctx \in Contexts, anomaly \in BOOLEAN,
          m \in EventMults, uuid \in UUIDs :
         \E coins \in CoinDraws(anomaly) :
         \E forced \in ForcedDraws(anomaly, coins) :
         LET selected == anomaly_metrics(anomaly, coins, forced) IN
         \E dv \in MetricDraws(metric_anomaly(anomaly, "vibration", selected)),
            dt \in MetricDraws(metric_anomaly(anomaly, "temperature", selected)),
            dh \in MetricDraws(metric_anomaly(anomaly, "humidity", selected)),
            ds \in MetricDraws(metric_anomaly(anomaly, "speed", selected)),
            j \in EndPoints :
            LET d == [coins |-> coins, forced |-> forced,
                      metric |-> [vibration |-> dv, temperature |-> dt,
                                  humidity |-> dh, speed |-> ds],
                      j |-> j]
            IN  /\ args' = [call |-> "create_random_event", self |-> name,
                            ctx |-> ctx, anomaly |-> anomaly,
                            variation_multiplier |-> m]
                /\ draws' = d
                /\ event' = create_random_event(get_types[name], ctx, anomaly,
                                                m, d, uuid)
    /\ pc' = "created"
    /\ err' = "none"
    /\ UNCHANGED <<metric, ret, draws2, event2>>
    /\ UNCHANGED <<catVars, fabVars>>

\* the draws of one metric mirrored: the other end of the range, or the
\* other side of it
OtherDraws(d) == [u |-> UGrid - d.u, e |-> d.e, side |-> ~d.side]

\* A second call of create_random_event with the arguments of the first.
\* The random module is either in the state it had before the first call
\* (the same draws) or in one that differs in the humidity draws only;
\* uuid4 reads the operating system's entropy in both cases.
CreateRandomEventAgain ==
    /\ pc = "created"
    /\ \E uuid \in UUIDs, other \in BOOLEAN :
         LET humidity_anomaly ==
                 metric_anomaly(args.anomaly, "humidity",
                     anomaly_metrics(args.anomaly, draws.coins, draws.forced))
             dh == IF ~other THEN draws.metric.humidity
                   ELSE IF humidity_anomaly
                   THEN OtherDraws(draws.metric.humidity)
                   ELSE [OtherDraws(draws.metric.humidity)
                            EXCEPT !.side = FALSE]
             d == [draws EXCEPT !.metric.humidity = dh]
         IN  /\ draws2' = d
             /\ event2' = create_random_event(get_types[args.self], args.ctx,
                                              args.anomaly,
                                              args.variation_multiplier,
                                              d, uuid)
    /\ pc' = "repeated"
    /\ err' = "none"
    /\ UNCHANGED <<metric, args, draws, ret, event>>
    /\ UNCHANGED <<catVars, fabVars>>

Next ==
    \/ NewAssetMetric
    \/ CalculateRandomValue
    \/ CalcDefectFactor
    \/ CalculateDefectProbability
    \/ CreateRandomEvent

Spec == Init /\ [][Next]_vars

\* two calls of create_random_event in a row
NextTwice ==
    \/ CreateRandomEvent
    \/ CreateRandomEventAgain

SpecTwice == Init /\ [][NextTwice]_vars

-----------------------------------------------------------------------------
(* Properties *)

InRange(self, value) == self.Min <= value /\ value <= self.Max

\* distance of a value from [Min, Max]
Distance(self, value) ==
    IF value > self.Max THEN value - self.Max
    ELSE IF value < self.Min THEN self.Min - value
    ELSE 0

Reading(ev, name) ==
    CASE name = "vibration" -> ev.Vibration
      [] name = "temperature" -> ev.Temperature
      [] name = "humidity" -> ev.Humidity
      [] name = "speed" -> ev.Speed

\* the asset type and the anomaly set of the create_random_event call
Self == get_types[args.self]
Selected == anomaly_metrics(args.anomaly, draws.coins, draws.forced)
EventMade == pc \in {"created", "repeated"}

\* C1: an event created with anomaly=True has at least one of its four
\* readings outside the nominal [Min, Max] of its metric.
C1_AnomalousEventHasOutlier ==
    (EventMade /\ args.anomaly) =>
        \E n \in MetricNames : ~InRange(MetricOf(Self, n), Reading(event, n))

\* C2: for a catalog metric, calculate_random_value(anomaly=True, m) returns
\* a value strictly greater than Max, or its value before the floor at 0 is
\* strictly less than Min.
C2_AnomalousValueOutside ==
    (pc = "sampled" /\ args.anomaly /\ metric \in CatalogMetrics) =>
        \/ ret > metric.Max
        \/ raw_random_value(metric, TRUE, args.variation_multiplier,
                            draws.u, draws.e, draws.side) < 200 * metric.Min

\* C3 as stated: for every metric with Min <= Max,
\* calculate_random_value(anomaly=False, m) returns v with
\* max(0, Min) <= v <= Max.
C3_NominalValueInRange ==
    (pc = "sampled" /\ ~args.anomaly /\ metric.Min <= metric.Max) =>
        /\ (IF metric.Min < 0 THEN 0 ELSE metric.Min) <= ret
        /\ ret <= metric.Max

\* C3 amended: for every metric with Min <= Max, Max >= 0 and Min and Max
\* multiples of 0.01, calculate_random_value(anomaly=False, m) returns v with
\* max(0, Min) <= v <= Max.
C3_NominalValueInRangeOnGrid ==
    (pc = "sampled" /\ ~args.anomaly /\ metric.Min <= metric.Max
        /\ metric.Max >= 0 /\ metric.Min % 10 = 0 /\ metric.Max % 10 = 0) =>
        /\ (IF metric.Min < 0 THEN 0 ELSE metric.Min) <= ret
        /\ ret <= metric.Max

\* a nominal sample of a metric with Min < 0 <= Max that was floored at 0
C3_Witness ==
    /\ pc = "sampled" /\ ~args.anomaly
    /\ metric.Min < 0 /\ metric.Max > 0
    /\ metric.Min % 10 = 0 /\ metric.Max % 10 = 0
    /\ draws.u = 0 /\ ret = 0

\* C4: every metric that is not in the anomaly set, and every metric when
\* anomaly is false, has a reading inside its nominal [Min, Max].
C4_UnselectedInRange ==
    EventMade =>
        \A n \in MetricNames :
            ~(args.anomaly /\ n \in Selected) =>
                InRange(MetricOf(Self, n), Reading(event, n))

\* an anomalous event with vibration selected and out of range and
\* temperature not selected
C4_Witness ==
    /\ pc = "created" /\ args.anomaly
    /\ "vibration" \in Selected /\ "temperature" \notin Selected
    /\ ~InRange(Self.Vibration, event.Vibration)
    /\ InRange(Self.Temperature, event.Temperature)

\* C5: calculate_defect_probability returns a value in [0, 1], also as the
\* DefectProbability of an event, and each of the three factors is >= 0.
C5_ProbabilityInUnitInterval ==
    /\ pc = "scored" =>
          /\ 0 <= ret /\ ret <= 100
          /\ RatLeq(Zero, calc_defect_factor(get_types[args.self].Vibration,
                                             args.vibration))
          /\ RatLeq(Zero, calc_defect_factor(get_types[args.self].Temperature,
                                             args.temperature))
          /\ RatLeq(Zero, calc_defect_factor(get_types[args.self].Speed,
                                             args.speed))
    /\ EventMade => (0 <= event.DefectProbability
                        /\ event.DefectProbability <= 100)

\* a score whose rounded value exceeds 1.0 and was clamped
C5_Witness ==
    /\ pc = "scored" /\ ret = 100
    /\ calculate_defect_probability_unclamped(get_types[args.self],
            args.vibration, args.temperature, args.speed, draws.j) > 100

\* C6: calculate_defect_probability returns 0 when vibration, temperature
\* and speed are each within [Min, Max], and every event created with
\* anomaly=False has DefectProbability 0.
C6_ZeroInsideRange ==
    /\ (pc = "scored"
          /\ InRange(get_types[args.self].Vibration, args.vibration)
          /\ InRange(get_types[args.self].Temperature, args.temperature)
          /\ InRange(get_types[args.self].Speed, args.speed)) => ret = 0
    /\ (EventMade /\ ~args.anomaly) => event.DefectProbability = 0

\* the Press scored at its three upper bounds (0.8, 45, 60)
C6_Witness ==
    /\ pc = "scored" /\ args.self = "Press"
    /\ args.vibration = 800 /\ args.temperature = 45000 /\ args.speed = 60000
    /\ ret = 0

\* C7: for DefectFactor > 0, calc_defect_factor(value) is 0 inside
\* [Min, Max] and strictly positive outside; for a range with Min <= Max it
\* is the distance of value from the range divided by DefectFactor, hence
\* strictly increasing in the distance.
C7_FactorIsScaledDistance ==
    (pc = "factored" /\ metric.DefectFactor > 0) =>
        /\ err = "none"
        /\ InRange(metric, args.value) => ret = Zero
        /\ ~InRange(metric, args.value) => RatLess(Zero, ret)
        /\ metric.Min <= metric.Max =>
              /\ ret.n * metric.DefectFactor
                     = Distance(metric, args.value) * ret.d
              /\ \A w \in ValuesFor(metric) :
                    Distance(metric, w) > Distance(metric, args.value) =>
                        RatLess(ret, calc_defect_factor(metric, w))

\* a factor computed for a value below Min
C7_Witness ==
    /\ pc = "factored" /\ metric.DefectFactor > 0
    /\ metric.Min <= metric.Max /\ args.value < metric.Min
    /\ RatLess(Zero, ret)

C9_HumidityNotScored ==
    /\ EventMade =>
          event.DefectProbability =
              calculate_defect_probability(Self, event.Vibration,
                                           event.Temperature, event.Speed,
                                           draws.j)
    /\ pc = "repeated" =>
          event2.DefectProbability = event.DefectProbability
    /\ (EventMade /\ args.anomaly /\ Selected = {"humidity"}) =>
          event.DefectProbability = 0

\* two runs with different humidity readings and a positive score
C9_Witness ==
    /\ pc = "repeated"
    /\ event2.Humidity # event.Humidity
    /\ event.DefectProbability > 0

\* a metric definition that violates its invariant
Invalid(self) == self.Min > self.Max \/ self.DefectFactor = 0

\* C10: a metric with Min > Max or DefectFactor = 0 is rejected with an
\* error when it is constructed, and is never sampled or scored.
C10_InvalidMetricRejected ==
    /\ (pc = "constructed" /\ Invalid(metric)) => err # "none"
    /\ pc \in {"sampled", "factored"} => ~Invalid(metric)

-----------------------------------------------------------------------------
(* The catalogs as their callers see them *)

\* a caller changes a returned mapping at most MaxMutations times
MaxMutations == 2

\* get_type_map with a type name that the catalog does not have
get_type_map_misspelled ==
    [a \in {"Robotic Arm", "Automated Press", "Conveyor Belt", "Packaging Line"} |->
        CASE a = "Robotic Arm" -> "Assembly"
          [] a = "Automated Press" -> "Press"
          [] a = "Conveyor Belt" -> "Conveyer"
          [] a = "Packaging Line" -> "Packaging"]

\* Asset.get_type_map(): the dict literal
get_type_map ==
    [a \in {"Robotic Arm", "Automated Press", "Conveyor Belt", "Packaging Line"} |->
        CASE a = "Robotic Arm" -> "Assembly"
          [] a = "Automated Press" -> "Press"
          [] a = "Conveyor Belt" -> "Conveyor"
          [] a = "Packaging Line" -> "Packaging"]

\* get_types() that keeps the table it built and returns that same object
get_types_cached(held) == IF held = NoMapping THEN get_types ELSE held

\* A call of get_types() by a caller that holds the mapping `held` of an
\* earlier call: the body is a dict literal, every call builds new
\* AssetType and AssetMetric objects and reads nothing of `held`.
get_types_call(held) == get_types

\* A call of get_type_map(), likewise
get_type_map_call(held) == get_type_map

\* what a caller can do to a mapping f it holds: remove an entry, add one,
\* replace one by another
Removals(f) == {[k \in DOMAIN f \ {x} |-> f[k]] : x \in DOMAIN f}
Additions(f, v) ==
    {[k \in DOMAIN f \cup {"Other"} |-> IF k = "Other" THEN v ELSE f[k]]}
Replacements(f) ==
    {[f EXCEPT ![x] = f[y]] : x \in DOMAIN f, y \in DOMAIN f}

\* ... or change a field of an AssetType or an AssetMetric in it (the
\* dataclasses are not frozen)
FieldChanges(f) ==
    {[f EXCEPT ![x].Name = "Other"] : x \in DOMAIN f}
        \cup {[f EXCEPT ![x].Vibration.Min = f[x].Vibration.Max + 10] :
                  x \in DOMAIN f}
        \cup {[f EXCEPT ![x].Speed.DefectFactor = 0] : x \in DOMAIN f}

GetTypes ==
    /\ types_obj' = get_types_call(types_obj)
    /\ last_call' = "get_types"
    /\ UNCHANGED <<map_obj, nmut>>
    /\ UNCHANGED <<assetVars, fabVars>>

GetTypeMap ==
    /\ map_obj' = get_type_map_call(map_obj)
    /\ last_call' = "get_type_map"
    /\ UNCHANGED <<types_obj, nmut>>
    /\ UNCHANGED <<assetVars, fabVars>>

\* the caller changes the mapping it got from get_types()
MutateTypes ==
    /\ types_obj # NoMapping
    /\ nmut < MaxMutations
    /\ types_obj' \in (Removals(types_obj)
                          \cup Additions(types_obj, get_types["Press"])
                          \cup Replacements(types_obj)
                          \cup FieldChanges(types_obj)) \ {types_obj}
    /\ last_call' = "mutate_types"
    /\ nmut' = nmut + 1
    /\ UNCHANGED map_obj
    /\ UNCHANGED <<assetVars, fabVars>>

\* the caller changes the mapping it got from get_type_map()
MutateTypeMap ==
    /\ map_obj # NoMapping
    /\ nmut < MaxMutations
    /\ map_obj' \in (Removals(map_obj) \cup Additions(map_obj, "Press")
                        \cup Replacements(map_obj)) \ {map_obj}
    /\ last_call' = "mutate_type_map"
    /\ nmut' = nmut + 1
    /\ UNCHANGED types_obj
    /\ UNCHANGED <<assetVars, fabVars>>

NextCatalog ==
    \/ GetTypes
    \/ GetTypeMap
    \/ MutateTypes
    \/ MutateTypeMap

SpecCatalog == Init /\ [][NextCatalog]_vars

\* C11: whatever the caller did to the mappings returned earlier, the
\* mapping a call of get_types() or get_type_map() returns has the original
\* four entries with their original parameters.
C11_FreshTableEachCall ==
    /\ last_call = "get_types" =>
          /\ DOMAIN types_obj = {"Assembly", "Press", "Conveyor", "Packaging"}
          /\ \A k \in DOMAIN types_obj : types_obj[k] = get_types[k]
    /\ last_call = "get_type_map" =>
          /\ DOMAIN map_obj = {"Robotic Arm", "Automated Press",
                               "Conveyor Belt", "Packaging Line"}
          /\ \A a \in DOMAIN map_obj : map_obj[a] = get_type_map[a]

\* get_types() called again after the caller changed the mapping it held
\* twice
C11_Witness ==
    /\ last_call = "get_types" /\ nmut = 2
    /\ types_obj = get_types

\* the draw of uniform(0.5 * Variation, 1.5 * Variation), in twentieths of a
\* thousandth
ExcursionDraw == GridPoint(metric.Variation * 10, metric.Variation * 30, draws.e, 1)

\* how far the anomalous value of the sampled metric lies beyond the bound
\* it was pushed from, before floor and rounding, for a multiplier mm (in
\* two-hundredths of a thousandth)
Beyond(mm) ==
    LET value == raw_random_value(metric, TRUE, mm, draws.u, draws.e, draws.side)
    IN  IF draws.side THEN value - 200 * metric.Max
        ELSE 200 * metric.Min - value

\* C12: with the excursion draw and the side fixed, the distance of the
\* anomalous value from the nominal range, before floor and rounding, is
\* the excursion draw times m; it does not decrease when m grows and
\* strictly increases when Variation > 0.
C12_DistanceScalesWithMultiplier ==
    (pc = "sampled" /\ args.anomaly) =>
        /\ metric.Variation * 10 <= ExcursionDraw
        /\ ExcursionDraw <= metric.Variation * 30
        /\ Beyond(args.variation_multiplier)
              = ExcursionDraw * args.variation_multiplier
        /\ metric.Min <= metric.Max =>
              LET value == raw_random_value(metric, TRUE,
                               args.variation_multiplier,
                               draws.u, draws.e, draws.side)
              IN  IF value > 200 * metric.Max
                  THEN value - 200 * metric.Max
                           = ExcursionDraw * args.variation_multiplier
                  ELSE IF value < 200 * metric.Min
                  THEN 200 * metric.Min - value
                           = ExcursionDraw * args.variation_multiplier
                  ELSE ExcursionDraw * args.variation_multiplier = 0
        /\ \A m2 \in Mults :
              m2 > args.variation_multiplier =>
                  /\ Beyond(m2) >= Beyond(args.variation_multiplier)
                  /\ metric.Variation > 0 =>
                        Beyond(m2) > Beyond(args.variation_multiplier)

\* an anomalous low-side sample of a metric with Variation > 0 at
\* multiplier 2
C12_Witness ==
    /\ pc = "sampled" /\ args.anomaly /\ ~draws.side
    /\ metric.Variation > 0 /\ metric.Min <= metric.Max
    /\ args.variation_multiplier = 20
    /\ Beyond(20) = 2 * Beyond(10)

\* C13: with anomaly true the anomaly set has 1 to 4 metrics; when the four
\* flips all miss exactly one metric, the forced choice, is in it; with
\* anomaly false the set is empty and no flip or forced choice was drawn.
C13_AnomalySetNeverEmpty ==
    EventMade =>
        /\ Selected \subseteq MetricNames
        /\ args.anomaly =>
              /\ 1 <= Cardinality(Selected) /\ Cardinality(Selected) <= 4
              /\ (\A n \in MetricNames : ~draws.coins[n]) =>
                    /\ draws.forced \in MetricNames
                    /\ Selected = {draws.forced}
              /\ (\E n \in MetricNames : draws.coins[n]) =>
                    /\ draws.forced = "none"
                    /\ Selected = {n \in MetricNames : draws.coins[n]}
              /\ \A n \in Selected : draws.metric[n] \in MetricDraws(TRUE)
        /\ ~args.anomaly =>
              /\ Selected = {}
              /\ \A n \in MetricNames : ~draws.coins[n]
              /\ draws.forced = "none"
              /\ \A n \in MetricNames : draws.metric[n] \in MetricDraws(FALSE)

\* an anomalous event whose four flips missed and whose forced choice is
\* speed, read out of range
C13_Witness ==
    /\ pc = "created" /\ args.anomaly
    /\ \A n \in MetricNames : ~draws.coins[n]
    /\ draws.forced = "speed"
    /\ ~InRange(Self.Speed, event.Speed)
    /\ InRange(Self.Vibration, event.Vibration)

\* C14: every reading of every created Event is >= 0; a low-side excursion
\* below 0 is reported as 0, which is below Min when Min > 0.
C14_ReadingsNotNegative ==
    /\ pc = "sampled" => ret >= 0
    /\ EventMade =>
        \A n \in MetricNames :
            /\ Reading(event, n) >= 0
            /\ raw_random_value(MetricOf(Self, n),
                                metric_anomaly(args.anomaly, n, Selected),
                                args.variation_multiplier, draws.metric[n].u,
                                draws.metric[n].e, draws.metric[n].side) < 0 =>
                  /\ Reading(event, n) = 0
                  /\ MetricOf(Self, n).Min > 0 =>
                        ~InRange(MetricOf(Self, n), Reading(event, n))

\* a Conveyor event whose vibration, 0.05 minus the excursion, was floored
C14_Witness ==
    /\ pc = "created" /\ args.self = "Conveyor" /\ args.anomaly
    /\ "vibration" \in Selected /\ ~draws.metric["vibration"].side
    /\ event.Vibration = 0

\* C15: the catalog has the four types Assembly, Press, Conveyor and
\* Packaging; each has its key as Name and its four metrics, each with
\* Min <= Max, Variation >= 0 and DefectFactor > 0.
C15_CatalogWellFormed ==
    last_call = "get_types" =>
        /\ DOMAIN types_obj = {"Assembly", "Press", "Conveyor", "Packaging"}
        /\ \A k \in DOMAIN types_obj :
              /\ DOMAIN types_obj[k] = {"Name", "Vibration", "Temperature",
                                        "Humidity", "Speed"}
              /\ types_obj[k].Name = k
              /\ \A n \in MetricNames :
                    LET m == MetricOf(types_obj[k], n)
                    IN  /\ m.Min <= m.Max
                        /\ m.Variation >= 0
                        /\ m.DefectFactor > 0

\* the catalog as get_types() first returns it
C15_Witness ==
    /\ last_call = "get_types" /\ nmut = 0
    /\ types_obj["Conveyor"].Vibration.Min = 50
    /\ types_obj["Conveyor"].Vibration.Max = 200

\* C16: every type name in the mapping get_type_map() returns is a key of
\* the mapping get_types() returns, and the mapped names are all four keys.
C16_TypeMapMatchesCatalog ==
    (last_call = "get_type_map" /\ types_obj # NoMapping) =>
        /\ \A a \in DOMAIN map_obj :
              map_obj[a] \in DOMAIN get_types_call(types_obj)
        /\ {map_obj[a] : a \in DOMAIN map_obj}
              = DOMAIN get_types_call(types_obj)
        /\ Cardinality(DOMAIN map_obj) = 4

\* get_type_map() called by a caller that also called get_types()
C16_Witness ==
    /\ last_call = "get_type_map" /\ types_obj # NoMapping
    /\ map_obj["Conveyor Belt"] = "Conveyor"

------------------------------------------------------------------------
\* The Fabric setup scripts (src/infra/scripts/fabric).  Each run of a script
\* is a sequence of calls to the remote API client; one action is one call
\* together with the statements up to the next call.  fpc[r] is the call run
\* r makes next, floc[r] its local variables, log[r] the calls it has made
\* with their outcomes, remote the state of the service.

\* outcomes of a call: a value (0 is None or False), a FabricApiError with a
\* status code, or another exception
Ok(v) == [kind |-> "ok", status |-> 0, value |-> v, listing |-> {}]
Listing(ids) == [kind |-> "ok", status |-> 0, value |-> 0, listing |-> ids]
ApiError(s) == [kind |-> "FabricApiError", status |-> s, value |-> 0, listing |-> {}]
OtherError == [kind |-> "Exception", status |-> 0, value |-> 0, listing |-> {}]

\* a call can fail for reasons of its own: the service answers with a server
\* error, or the transport fails
Failures == {ApiError(500), OtherError}

\* the one object the service holds under a name, or None
Named(ids) == IF ids = {} THEN 0 ELSE CHOOSE i \in ids : TRUE

\* the id the service gives the next object it creates
NewId(ids) == Cardinality(ids) + 1

\* the id of the capacity, when the service has one of that name
CapacityId == 7

\* FabricApiClient.get_workspace(name): the workspace of that name or None
get_workspace(rem) == {Ok(Named(rem.workspaces))} \cup Failures

\* FabricApiClient.create_workspace(name): the new id; the service refuses a
\* name it already has with status 409
create_workspace(rem) ==
    (IF rem.workspaces # {} THEN {ApiError(409)}
     ELSE {Ok(NewId(rem.workspaces))}) \cup Failures

\* FabricApiClient.get_capacity(name): the capacity of that name or None
get_capacity(rem) == {Ok(rem.capacity)} \cup Failures

\* FabricWorkspaceApiClient.assign_to_capacity(capacity_id)
assign_to_capacity(rem) == {Ok(0)} \cup Failures

\* the service after a call with outcome out
Created(rem, field, out) ==
    IF out.kind = "ok" THEN [rem EXCEPT ![field] = @ \cup {out.value}] ELSE rem
Assigned(rem, workspace_id, capacity_id, out) ==
    IF out.kind = "ok"
    THEN [rem EXCEPT !.assigned = @ \cup {<<workspace_id, capacity_id>>}]
    ELSE rem

\* the log of run r after one more call
Logged(r, call, arg, out) ==
    [log EXCEPT ![r] = Append(@, [call |-> call, arg |-> arg, kind |-> out.kind,
                                  status |-> out.status, value |-> out.value,
                                  listing |-> out.listing])]

\* the exception out leaves the function from run r
Raise(r, kind, status) ==
    [floc EXCEPT ![r].raised = kind, ![r].status_code = status]

\* a script starts against a service that may already hold the workspace,
\* the capacity, the folder or the environment
StartScript ==
    /\ script = "none"
    /\ \E s \in {"setup_workspace", "setup_folder", "setup_environment",
                  "setup_data_agent"},
          held \in BOOLEAN, capacity \in {0, CapacityId},
          yml \in [Runs -> BOOLEAN], notebook \in BOOLEAN :
         /\ script' = s
         /\ s # "setup_data_agent" => ~notebook
         /\ s # "setup_workspace" => capacity = 0
         /\ s # "setup_environment" => \A r \in Runs : ~yml[r]
         /\ remote' =
              [NoRemote EXCEPT
                 !.workspaces = IF held /\ s = "setup_workspace" THEN {1} ELSE {},
                 !.folders = IF held /\ s = "setup_folder" THEN {1} ELSE {},
                 !.environments = IF held /\ s = "setup_environment" THEN {1} ELSE {},
                 !.agents = IF held /\ s = "setup_data_agent" THEN {1} ELSE {},
                 !.notebooks = IF notebook THEN {1} ELSE {},
                 !.capacity = capacity]
         /\ floc' = [r \in Runs |-> [NoLocals EXCEPT !.yml = yml[r]]]
    /\ UNCHANGED <<fpc, log>>
    /\ UNCHANGED <<assetVars, catVars>>

\* setup_workspace, step 1: create only when the lookup found nothing
after_get_workspace(existing_workspace) ==
    IF existing_workspace # 0 THEN "get_capacity" ELSE "create_workspace"

\* a handler that re-raises every FabricApiError of create_workspace
on_create_error_reraise(status_code) == "raised"

\* setup_workspace: except FabricApiError around create_workspace
on_create_error(status_code) ==
    IF status_code = 409 THEN "get_workspace_again" ELSE "raised"

\* existing_workspace = fabric_client.get_workspace(workspace_name)
GetWorkspace(r) ==
    /\ script = "setup_workspace" /\ fpc[r] = "idle"
    /\ \E out \in get_workspace(remote) :
         /\ log' = Logged(r, "get_workspace", <<>>, out)
         /\ IF out.kind = "ok"
            THEN /\ floc' = [floc EXCEPT ![r].existing = out.value,
                                          ![r].id = out.value]
                 /\ fpc' = [fpc EXCEPT ![r] = after_get_workspace(out.value)]
            ELSE /\ floc' = Raise(r, out.kind, out.status)
                 /\ fpc' = [fpc EXCEPT ![r] = "raised"]
    /\ UNCHANGED <<script, remote>>
    /\ UNCHANGED <<assetVars, catVars>>

\* workspace_id = fabric_client.create_workspace(name=workspace_name)
CreateWorkspace(r) ==
    /\ script = "setup_workspace" /\ fpc[r] = "create_workspace"
    /\ \E out \in create_workspace(remote) :
         /\ log' = Logged(r, "create_workspace", <<>>, out)
         /\ remote' = Created(remote, "workspaces", out)
         /\ CASE out.kind = "ok" ->
                   /\ floc' = [floc EXCEPT ![r].id = out.value]
                   /\ fpc' = [fpc EXCEPT ![r] = "get_capacity"]
              [] out.kind = "FabricApiError" ->
                   LET next == on_create_error(out.status)
                   IN  /\ fpc' = [fpc EXCEPT ![r] = next]
                       /\ floc' = IF next = "raised"
                                  THEN Raise(r, out.kind, out.status)
                                  ELSE [floc EXCEPT ![r].status_code = out.status]
              [] out.kind = "Exception" ->
                   /\ floc' = Raise(r, out.kind, out.status)
                   /\ fpc' = [fpc EXCEPT ![r] = "raised"]
    /\ UNCHANGED script
    /\ UNCHANGED <<assetVars, catVars>>

\* the lookup in the 409 handler; existing_workspace['id'] of None is a
\* TypeError
GetWorkspaceAgain(r) ==
    /\ script = "setup_workspace" /\ fpc[r] = "get_workspace_again"
    /\ \E out \in get_workspace(remote) :
         /\ log' = Logged(r, "get_workspace", <<>>, out)
         /\ IF out.kind = "ok" /\ out.value # 0
            THEN /\ floc' = [floc EXCEPT ![r].existing = out.value,
                                          ![r].id = out.value]
                 /\ fpc' = [fpc EXCEPT ![r] = "get_capacity"]
            ELSE /\ floc' = IF out.kind = "ok" THEN Raise(r, "TypeError", 0)
                            ELSE Raise(r, out.kind, out.status)
                 /\ fpc' = [fpc EXCEPT ![r] = "raised"]
    /\ UNCHANGED <<script, remote>>
    /\ UNCHANGED <<assetVars, catVars>>

\* a step 2 that goes on to the assignment whatever the lookup found
after_get_capacity_always_assign(capacity) == "assign_to_capacity"

\* setup_workspace, step 2: if not capacity: return None
after_get_capacity(capacity) ==
    IF capacity = 0 THEN "returned" ELSE "assign_to_capacity"

\* capacity = fabric_client.get_capacity(capacity_name)
GetCapacity(r) ==
    /\ script = "setup_workspace" /\ fpc[r] = "get_capacity"
    /\ \E out \in get_capacity(remote) :
         /\ log' = Logged(r, "get_capacity", <<>>, out)
         /\ IF out.kind = "ok"
            THEN /\ floc' = [floc EXCEPT ![r].capacity_id = out.value,
                                          ![r].result = 0]
                 /\ fpc' = [fpc EXCEPT ![r] = after_get_capacity(out.value)]
            ELSE /\ floc' = Raise(r, out.kind, out.status)
                 /\ fpc' = [fpc EXCEPT ![r] = "raised"]
    /\ UNCHANGED <<script, remote>>
    /\ UNCHANGED <<assetVars, catVars>>

\* FabricWorkspaceApiClient(workspace_id).assign_to_capacity(capacity_id);
\* return workspace_id
AssignToCapacity(r) ==
    /\ script = "setup_workspace" /\ fpc[r] = "assign_to_capacity"
    /\ \E out \in assign_to_capacity(remote) :
         /\ log' = Logged(r, "assign_to_capacity",
                          <<floc[r].id, floc[r].capacity_id>>, out)
         /\ remote' = Assigned(remote, floc[r].id, floc[r].capacity_id, out)
         /\ IF out.kind = "ok"
            THEN /\ floc' = [floc EXCEPT ![r].result = floc[r].id]
                 /\ fpc' = [fpc EXCEPT ![r] = "returned"]
            ELSE /\ floc' = Raise(r, out.kind, out.status)
                 /\ fpc' = [fpc EXCEPT ![r] = "raised"]
    /\ UNCHANGED script
    /\ UNCHANGED <<assetVars, catVars>>

\* setup_folder and setup_environment are run one after the other: run r
\* starts when the runs before it have ended
Ended(r) == fpc[r] \in {"returned", "raised"}
Turn(r) == \A q \in Runs : q < r => Ended(q)

\* the locals of a run that returns the object it holds
Return(r) == [floc EXCEPT ![r].result = floc[r].id]

\* FabricWorkspaceApiClient.get_folder_by_name(name, parent): the folder or
\* None
get_folder_by_name(rem) == {Ok(Named(rem.folders))} \cup Failures

\* FabricWorkspaceApiClient.create_folder(name, parent): the new id
create_folder(rem) ==
    (IF rem.folders # {} THEN {ApiError(409)}
     ELSE {Ok(NewId(rem.folders))}) \cup Failures

\* FabricWorkspaceApiClient.get_folders(): the folders of the workspace; the
\* listing may not show a folder created a moment ago
get_folders(rem) == {Listing(rem.folders), Listing({})} \cup Failures

\* handlers that let every exception leave setup_folder as it is
setup_folder_raises_unwrapped(kind) == kind

\* setup_folder: except FabricApiError: raise; except Exception: raise
\* FabricApiError(...)
setup_folder_raises(kind) ==
    IF kind = "FabricApiError" THEN kind ELSE "FabricApiError"

\* setup_folder: return the existing folder, else create it
after_get_folder_by_name(existing_folder) ==
    IF existing_folder # 0 THEN "returned" ELSE "create_folder"

\* existing_folder = workspace_client.get_folder_by_name(...)
GetFolderByName(r) ==
    /\ script = "setup_folder" /\ fpc[r] = "idle" /\ Turn(r)
    /\ \E out \in get_folder_by_name(remote) :
         /\ log' = Logged(r, "get_folder_by_name", <<>>, out)
         /\ IF out.kind = "ok"
            THEN /\ floc' = [floc EXCEPT ![r].existing = out.value,
                                          ![r].id = out.value,
                                          ![r].result = out.value]
                 /\ fpc' = [fpc EXCEPT ![r] = after_get_folder_by_name(out.value)]
            ELSE /\ floc' = Raise(r, setup_folder_raises(out.kind), out.status)
                 /\ fpc' = [fpc EXCEPT ![r] = "raised"]
    /\ UNCHANGED <<script, remote>>
    /\ UNCHANGED <<assetVars, catVars>>

\* folder_id = workspace_client.create_folder(folder_name, parent_folder_id)
CreateFolder(r) ==
    /\ script = "setup_folder" /\ fpc[r] = "create_folder"
    /\ \E out \in create_folder(remote) :
         /\ log' = Logged(r, "create_folder", <<>>, out)
         /\ remote' = Created(remote, "folders", out)
         /\ IF out.kind = "ok"
            THEN /\ floc' = [floc EXCEPT ![r].id = out.value]
                 /\ fpc' = [fpc EXCEPT ![r] = "get_folders"]
            ELSE /\ floc' = Raise(r, setup_folder_raises(out.kind), out.status)
                 /\ fpc' = [fpc EXCEPT ![r] = "raised"]
    /\ UNCHANGED script
    /\ UNCHANGED <<assetVars, catVars>>

\* folders = workspace_client.get_folders(); the created folder is looked
\* up in the listing by its id and returned, or FabricApiError is raised
GetFolders(r) ==
    /\ script = "setup_folder" /\ fpc[r] = "get_folders"
    /\ \E out \in get_folders(remote) :
         /\ log' = Logged(r, "get_folders", <<>>, out)
         /\ CASE out.kind = "ok" /\ floc[r].id \in out.listing ->
                   /\ floc' = Return(r)
                   /\ fpc' = [fpc EXCEPT ![r] = "returned"]
              [] out.kind = "ok" /\ floc[r].id \notin out.listing ->
                   /\ floc' = Raise(r, setup_folder_raises("FabricApiError"), 0)
                   /\ fpc' = [fpc EXCEPT ![r] = "raised"]
              [] out.kind # "ok" ->
                   /\ floc' = Raise(r, setup_folder_raises(out.kind), out.status)
                   /\ fpc' = [fpc EXCEPT ![r] = "raised"]
    /\ UNCHANGED <<script, remote>>
    /\ UNCHANGED <<assetVars, catVars>>

\* FabricWorkspaceApiClient.get_environment_by_name(name): the environment
\* or None
get_environment_by_name(rem) == {Ok(Named(rem.environments))} \cup Failures

\* FabricWorkspaceApiClient.create_environment(...): the new environment
create_environment(rem) ==
    (IF rem.environments # {} THEN {ApiError(409)}
     ELSE {Ok(NewId(rem.environments))}) \cup Failures

\* read_environment_yml(path): the content, FileNotFoundError or Exception
read_environment_yml == {Ok(1), OtherError}

\* FabricWorkspaceApiClient.update_environment_definition(...): True or
\* False
update_environment_definition(rem) == {Ok(1), Ok(0)} \cup Failures

\* FabricWorkspaceApiClient.publish_environment(environment_id)
publish_environment(rem) == {Ok(0)} \cup Failures

\* the service after update_environment_definition or publish_environment
Marked(rem, field, environment_id, done) ==
    IF done THEN [rem EXCEPT ![field] = @ \cup {environment_id}] ELSE rem

\* setup_environment, step 3: if environment_yml_path:
after_environment(environment_yml_path) ==
    IF environment_yml_path THEN "read_environment_yml" ELSE "returned"

\* setup_environment: if success: publish, else only a warning
after_update(success) ==
    IF success THEN "publish_environment" ELSE "returned"

\* a step 3 handler that re-raises
on_config_error_reraise(kind) == "raised"

\* setup_environment, step 3: except Exception, not re-raised
on_config_error(kind) == "returned"

\* the end of step 3 after an exception of kind kind
ConfigError(r, kind, status) ==
    /\ fpc' = [fpc EXCEPT ![r] = on_config_error(kind)]
    /\ floc' = IF on_config_error(kind) = "raised"
               THEN Raise(r, kind, status)
               ELSE Return(r)

\* environment_info = workspace_client.get_environment_by_name(...)
GetEnvironmentByName(r) ==
    /\ script = "setup_environment" /\ fpc[r] = "idle" /\ Turn(r)
    /\ \E out \in get_environment_by_name(remote) :
         /\ log' = Logged(r, "get_environment_by_name", <<>>, out)
         /\ CASE out.kind = "ok" /\ out.value # 0 ->
                   /\ floc' = [floc EXCEPT ![r].existing = out.value,
                                            ![r].id = out.value,
                                            ![r].result = out.value]
                   /\ fpc' = [fpc EXCEPT ![r] = after_environment(floc[r].yml)]
              [] out.kind = "ok" /\ out.value = 0 ->
                   /\ floc' = floc
                   /\ fpc' = [fpc EXCEPT ![r] = "create_environment"]
              [] out.kind # "ok" ->
                   /\ floc' = Raise(r, out.kind, out.status)
                   /\ fpc' = [fpc EXCEPT ![r] = "raised"]
    /\ UNCHANGED <<script, remote>>
    /\ UNCHANGED <<assetVars, catVars>>

\* environment_info = workspace_client.create_environment(...)
CreateEnvironment(r) ==
    /\ script = "setup_environment" /\ fpc[r] = "create_environment"
    /\ \E out \in create_environment(remote) :
         /\ log' = Logged(r, "create_environment", <<>>, out)
         /\ remote' = Created(remote, "environments", out)
         /\ IF out.kind = "ok"
            THEN /\ floc' = [floc EXCEPT ![r].existing = out.value,
                                          ![r].id = out.value,
                                          ![r].result = out.value]
                 /\ fpc' = [fpc EXCEPT ![r] = after_environment(floc[r].yml)]
            ELSE /\ floc' = Raise(r, out.kind, out.status)
                 /\ fpc' = [fpc EXCEPT ![r] = "raised"]
    /\ UNCHANGED script
    /\ UNCHANGED <<assetVars, catVars>>

\* yml_content = read_environment_yml(environment_yml_path)
ReadEnvironmentYml(r) ==
    /\ script = "setup_environment" /\ fpc[r] = "read_environment_yml"
    /\ \E out \in read_environment_yml :
         /\ log' = Logged(r, "read_environment_yml", <<>>, out)
         /\ IF out.kind = "ok"
            THEN /\ floc' = floc
                 /\ fpc' = [fpc EXCEPT ![r] = "update_environment_definition"]
            ELSE ConfigError(r, out.kind, out.status)
    /\ UNCHANGED <<script, remote>>
    /\ UNCHANGED <<assetVars, catVars>>

\* success = workspace_client.update_environment_definition(...)
UpdateEnvironmentDefinition(r) ==
    /\ script = "setup_environment"
    /\ fpc[r] = "update_environment_definition"
    /\ \E out \in update_environment_definition(remote) :
         /\ log' = Logged(r, "update_environment_definition",
                          <<floc[r].id>>, out)
         /\ remote' = Marked(remote, "definitions", floc[r].id,
                             out.kind = "ok" /\ out.value = 1)
         /\ IF out.kind = "ok"
            THEN /\ floc' = [floc EXCEPT ![r].success = (out.value = 1)]
                 /\ fpc' = [fpc EXCEPT ![r] = after_update(out.value = 1)]
            ELSE ConfigError(r, out.kind, out.status)
    /\ UNCHANGED script
    /\ UNCHANGED <<assetVars, catVars>>

\* workspace_client.publish_environment(environment_id)
PublishEnvironment(r) ==
    /\ script = "setup_environment" /\ fpc[r] = "publish_environment"
    /\ \E out \in publish_environment(remote) :
         /\ log' = Logged(r, "publish_environment", <<floc[r].id>>, out)
         /\ remote' = Marked(remote, "published", floc[r].id, out.kind = "ok")
         /\ IF out.kind = "ok"
            THEN /\ floc' = floc
                 /\ fpc' = [fpc EXCEPT ![r] = "returned"]
            ELSE ConfigError(r, out.kind, out.status)
    /\ UNCHANGED script
    /\ UNCHANGED <<assetVars, catVars>>

\* FabricWorkspaceApiClient.get_data_agent_by_name(name): the agent or None
get_data_agent_by_name(rem) == {Ok(Named(rem.agents))} \cup Failures

\* FabricWorkspaceApiClient.create_data_agent(name, folder_id): the new
\* agent, or an answer without an id
create_data_agent(rem) ==
    (IF rem.agents # {} THEN {ApiError(409)}
     ELSE {Ok(NewId(rem.agents)), Ok(0)}) \cup Failures

\* FabricWorkspaceApiClient.get_notebook_by_name(name): the notebook or None
get_notebook_by_name(rem) == {Ok(Named(rem.notebooks))} \cup Failures

\* FabricWorkspaceApiClient.update_notebook(notebook_id, ...)
update_notebook(rem) == {Ok(0)} \cup Failures

\* FabricWorkspaceApiClient.create_notebook(name, ...): the new notebook, or
\* an answer without an id
create_notebook(rem) ==
    (IF rem.notebooks # {} THEN {ApiError(409)}
     ELSE {Ok(NewId(rem.notebooks)), Ok(0)}) \cup Failures

\* job_result.get('status') of the values schedule_notebook_job returns
JobStatus(v) ==
    CASE v = 1 -> "Completed"
      [] v = 2 -> "Failed"
      [] v = 3 -> "Cancelled"
      [] OTHER -> "None"

\* FabricWorkspaceApiClient.schedule_notebook_job(notebook_id): the result
\* of the job, with any status or none
schedule_notebook_job(rem) == {Ok(0), Ok(1), Ok(2), Ok(3)} \cup Failures

\* the service after create_data_agent or create_notebook
CreatedWithId(rem, field, out) ==
    IF out.kind = "ok" /\ out.value # 0
    THEN [rem EXCEPT ![field] = @ \cup {out.value}]
    ELSE rem

\* the five read_file_content calls, json.loads of the query examples,
\* replace_tokens_in_content; json.loads and base64 of the notebook
read_file_content == {Ok(1), OtherError}
encode_notebook == {Ok(1), OtherError}

\* setup_data_agent: except FabricApiError: raise; except Exception: raise
\* FabricApiError(...)
setup_data_agent_raises(kind) ==
    IF kind = "FabricApiError" THEN kind ELSE "FabricApiError"

\* setup_data_agent: create the agent only when the lookup found none
after_get_data_agent_by_name(existing_agent) ==
    IF existing_agent # 0 THEN "read_file_content" ELSE "create_data_agent"

\* setup_data_agent: if not data_agent_id: raise FabricApiError; the same
\* for notebook_id
after_id(id, next) == IF id = 0 THEN "raised" ELSE next

\* setup_data_agent: update the notebook when it exists, else create it
after_get_notebook_by_name(notebook) ==
    IF notebook # 0 THEN "update_notebook" ELSE "create_notebook"

\* an end that returns the agent whatever the status of the job
after_job_always_returned(status) == "returned"

\* setup_data_agent: if job_result.get('status') != 'Completed': raise
after_job(status) == IF status # "Completed" THEN "raised" ELSE "returned"

\* run r goes on to next, or leaves with FabricApiError when next is raised
GoOn(r, locals, next) ==
    /\ fpc' = [fpc EXCEPT ![r] = next]
    /\ floc' = IF next = "raised"
               THEN [locals EXCEPT ![r].raised =
                                       setup_data_agent_raises("FabricApiError")]
               ELSE locals

\* run r leaves with the exception of a failed call
Fail(r, out) ==
    /\ fpc' = [fpc EXCEPT ![r] = "raised"]
    /\ floc' = Raise(r, setup_data_agent_raises(out.kind), out.status)

\* existing_agent = workspace_client.get_data_agent_by_name(data_agent_name)
GetDataAgentByName(r) ==
    /\ script = "setup_data_agent" /\ fpc[r] = "idle" /\ Turn(r)
    /\ \E out \in get_data_agent_by_name(remote) :
         /\ log' = Logged(r, "get_data_agent_by_name", <<>>, out)
         /\ IF out.kind = "ok"
            THEN GoOn(r, [floc EXCEPT ![r].existing = out.value,
                                      ![r].id = out.value],
                      after_get_data_agent_by_name(out.value))
            ELSE Fail(r, out)
    /\ UNCHANGED <<script, remote>>
    /\ UNCHANGED <<assetVars, catVars>>

\* data_agent = workspace_client.create_data_agent(...); data_agent.get('id')
CreateDataAgent(r) ==
    /\ script = "setup_data_agent" /\ fpc[r] = "create_data_agent"
    /\ \E out \in create_data_agent(remote) :
         /\ log' = Logged(r, "create_data_agent", <<>>, out)
         /\ remote' = CreatedWithId(remote, "agents", out)
         /\ IF out.kind = "ok"
            THEN GoOn(r, [floc EXCEPT ![r].id = out.value],
                      after_id(out.value, "read_file_content"))
            ELSE Fail(r, out)
    /\ UNCHANGED script
    /\ UNCHANGED <<assetVars, catVars>>

\* the configuration files are read and the tokens replaced
ReadFileContent(r) ==
    /\ script = "setup_data_agent" /\ fpc[r] = "read_file_content"
    /\ \E out \in read_file_content :
         /\ log' = Logged(r, "read_file_content", <<>>, out)
         /\ IF out.kind = "ok"
            THEN GoOn(r, floc, "get_notebook_by_name")
            ELSE Fail(r, out)
    /\ UNCHANGED <<script, remote>>
    /\ UNCHANGED <<assetVars, catVars>>

\* notebook = workspace_client.get_notebook_by_name(notebook_name), then the
\* notebook content is parsed and encoded
GetNotebookByName(r) ==
    /\ script = "setup_data_agent" /\ fpc[r] = "get_notebook_by_name"
    /\ \E out \in get_notebook_by_name(remote), enc \in encode_notebook :
         /\ log' = Logged(r, "get_notebook_by_name", <<>>, out)
         /\ out.kind # "ok" => enc.kind = "ok"
         /\ CASE out.kind # "ok" -> Fail(r, out)
              [] out.kind = "ok" /\ enc.kind # "ok" -> Fail(r, enc)
              [] out.kind = "ok" /\ enc.kind = "ok" ->
                   GoOn(r, [floc EXCEPT ![r].notebook_id = out.value],
                        after_get_notebook_by_name(out.value))
    /\ UNCHANGED <<script, remote>>
    /\ UNCHANGED <<assetVars, catVars>>

\* workspace_client.update_notebook(notebook_id, ...)
UpdateNotebook(r) ==
    /\ script = "setup_data_agent" /\ fpc[r] = "update_notebook"
    /\ \E out \in update_notebook(remote) :
         /\ log' = Logged(r, "update_notebook", <<floc[r].notebook_id>>, out)
         /\ IF out.kind = "ok"
            THEN GoOn(r, floc, "schedule_notebook_job")
            ELSE Fail(r, out)
    /\ UNCHANGED <<script, remote>>
    /\ UNCHANGED <<assetVars, catVars>>

\* notebook = workspace_client.create_notebook(...); notebook.get('id')
CreateNotebook(r) ==
    /\ script = "setup_data_agent" /\ fpc[r] = "create_notebook"
    /\ \E out \in create_notebook(remote) :
         /\ log' = Logged(r, "create_notebook", <<>>, out)
         /\ remote' = CreatedWithId(remote, "notebooks", out)
         /\ IF out.kind = "ok"
            THEN GoOn(r, [floc EXCEPT ![r].notebook_id = out.value],
                      after_id(out.value, "schedule_notebook_job"))
            ELSE Fail(r, out)
    /\ UNCHANGED script
    /\ UNCHANGED <<assetVars, catVars>>

\* job_result = workspace_client.schedule_notebook_job(notebook_id); return
\* data_agent when the job completed
ScheduleNotebookJob(r) ==
    /\ script = "setup_data_agent" /\ fpc[r] = "schedule_notebook_job"
    /\ \E out \in schedule_notebook_job(remote) :
         /\ log' = Logged(r, "schedule_notebook_job",
                          <<floc[r].notebook_id>>, out)
         /\ remote' = IF out.kind = "ok"
                      THEN [remote EXCEPT !.jobs =
                               @ \cup {<<r, floc[r].notebook_id>>}]
                      ELSE remote
         /\ IF out.kind = "ok"
            THEN GoOn(r, [floc EXCEPT ![r].job_status = JobStatus(out.value),
                                      ![r].result =
                                          IF after_job(JobStatus(out.value)) = "returned"
                                          THEN floc[r].id ELSE 0],
                      after_job(JobStatus(out.value)))
            ELSE Fail(r, out)
    /\ UNCHANGED script
    /\ UNCHANGED <<assetVars, catVars>>

NextFabric ==
    \/ StartScript
    \/ \E r \in Runs : GetWorkspace(r)
    \/ \E r \in Runs : CreateWorkspace(r)
    \/ \E r \in Runs : GetWorkspaceAgain(r)
    \/ \E r \in Runs : GetCapacity(r)
    \/ \E r \in Runs : AssignToCapacity(r)
    \/ \E r \in Runs : GetFolderByName(r)
    \/ \E r \in Runs : CreateFolder(r)
    \/ \E r \in Runs : GetFolders(r)
    \/ \E r \in Runs : GetEnvironmentByName(r)
    \/ \E r \in Runs : CreateEnvironment(r)
    \/ \E r \in Runs : ReadEnvironmentYml(r)
    \/ \E r \in Runs : UpdateEnvironmentDefinition(r)
    \/ \E r \in Runs : PublishEnvironment(r)
    \/ \E r \in Runs : GetDataAgentByName(r)
    \/ \E r \in Runs : CreateDataAgent(r)
    \/ \E r \in Runs : ReadFileContent(r)
    \/ \E r \in Runs : GetNotebookByName(r)
    \/ \E r \in Runs : UpdateNotebook(r)
    \/ \E r \in Runs : CreateNotebook(r)
    \/ \E r \in Runs : ScheduleNotebookJob(r)

SpecFabric == Init /\ [][NextFabric]_vars

\* the positions in the log of run r of its calls of an API function
Calls(r, call) == {i \in DOMAIN log[r] : log[r][i].call = call}

\* the last call run r made
LastCall(r) == log[r][Len(log[r])]

C18_WitnessNone ==
    /\ script = "setup_workspace"
    /\ fpc[1] = "returned" /\ floc[1].result = 0
    /\ remote.workspaces = {1} /\ remote.assigned = {}

\* C19: create_folder is called only after get_folder_by_name found
\* nothing; an existing folder is returned without any other call; two runs
\* in sequence create one folder and return the same folder id; whatever
\* exception leaves setup_folder is a FabricApiError.
C19_FolderGetOrCreate ==
    script = "setup_folder" =>
        /\ Cardinality(remote.folders) <= 1
        /\ Cardinality({r \in Runs : \E i \in Calls(r, "create_folder") :
                                        log[r][i].kind = "ok"}) <= 1
        /\ \A r \in Runs :
              /\ Cardinality(Calls(r, "create_folder")) <= 1
              /\ \A i \in Calls(r, "create_folder") :
                    /\ i = 2
                    /\ log[r][1].call = "get_folder_by_name"
                    /\ log[r][1].kind = "ok" /\ log[r][1].value = 0
              /\ (/\ log[r] # <<>>
                  /\ log[r][1].kind = "ok" /\ log[r][1].value # 0) =>
                    /\ Len(log[r]) = 1
                    /\ fpc[r] = "returned"
                    /\ floc[r].result = log[r][1].value
                    /\ floc[r].result \in remote.folders
              /\ fpc[r] = "raised" => floc[r].raised = "FabricApiError"
              /\ fpc[r] = "returned" => floc[r].result \in remote.folders
        /\ \A r1, r2 \in Runs :
              (fpc[r1] = "returned" /\ fpc[r2] = "returned") =>
                  floc[r1].result = floc[r2].result

\* the first run created the folder and returned it, the second found it
\* and returned the same id without a create call
C19_Witness ==
    /\ script = "setup_folder"
    /\ fpc[1] = "returned" /\ fpc[2] = "returned"
    /\ Len(log[1]) = 3 /\ log[1][2].call = "create_folder"
    /\ Len(log[2]) = 1
    /\ floc[1].result = 1 /\ floc[2].result = 1
    /\ remote.folders = {1}

\* a run in which an exception that is not a FabricApiError was wrapped
C19_WitnessWrapped ==
    /\ script = "setup_folder"
    /\ fpc[1] = "raised" /\ LastCall(1).kind = "Exception"
    /\ floc[1].raised = "FabricApiError"

\* C20: once setup_environment holds the environment it does not raise and
\* ends by returning it, whatever fails in reading the yml, updating the
\* definition or publishing; publish_environment is called only right after
\* update_environment_definition returned True; without a yml path neither
\* is called; an exception of the lookup or the creation leaves the
\* function unchanged.
C20_ConfigurationBestEffort ==
    script = "setup_environment" =>
        \A r \in Runs :
            /\ floc[r].id # 0 =>
                  /\ fpc[r] # "raised"
                  /\ floc[r].raised = "none"
                  /\ floc[r].id \in remote.environments
                  /\ fpc[r] \in {"returned", "read_environment_yml",
                                 "update_environment_definition",
                                 "publish_environment"}
                  /\ fpc[r] = "returned" => floc[r].result = floc[r].id
            /\ \A i \in Calls(r, "publish_environment") :
                  /\ i > 1
                  /\ log[r][i - 1].call = "update_environment_definition"
                  /\ log[r][i - 1].kind = "ok" /\ log[r][i - 1].value = 1
                  /\ log[r][i].arg = <<floc[r].id>>
            /\ ~floc[r].yml =>
                  /\ Calls(r, "read_environment_yml") = {}
                  /\ Calls(r, "update_environment_definition") = {}
                  /\ Calls(r, "publish_environment") = {}
            /\ \A i \in DOMAIN log[r] :
                  (/\ log[r][i].call \in {"get_environment_by_name",
                                          "create_environment"}
                   /\ log[r][i].kind # "ok") =>
                      /\ i = Len(log[r])
                      /\ fpc[r] = "raised"
                      /\ floc[r].raised = log[r][i].kind
                      /\ floc[r].status_code = log[r][i].status
            /\ fpc[r] = "raised" =>
                  LastCall(r).call \in {"get_environment_by_name",
                                        "create_environment"}

\* a run that created the environment, updated its definition, failed to
\* publish it and still returned it
C20_Witness ==
    /\ script = "setup_environment"
    /\ fpc[1] = "returned" /\ floc[1].result = 1 /\ floc[1].yml
    /\ Calls(1, "create_environment") # {}
    /\ LastCall(1).call = "publish_environment"
    /\ LastCall(1).kind = "FabricApiError"
    /\ remote.definitions = {1} /\ remote.published = {}

\* C21: setup_data_agent looks the data agent up first and creates it only
\* when there is none; the notebook is updated when get_notebook_by_name
\* found it and created otherwise, after the agent is held;
\* schedule_notebook_job is called at most once and only right after the
\* update or creation succeeded; the agent is returned only after a job
\* whose status is Completed, any other status raises FabricApiError; an
\* exception that leaves the function is a FabricApiError; an agent that
\* was created stays on the service whatever fails later.
C21_DataAgentOrderAndOutcome ==
    script = "setup_data_agent" =>
        \A r \in Runs :
            /\ log[r] # <<>> => log[r][1].call = "get_data_agent_by_name"
            /\ Cardinality(Calls(r, "get_data_agent_by_name")) <= 1
            /\ \A i \in Calls(r, "create_data_agent") :
                  /\ i = 2
                  /\ log[r][1].kind = "ok" /\ log[r][1].value = 0
                  /\ (log[r][i].kind = "ok" /\ log[r][i].value # 0) =>
                        log[r][i].value \in remote.agents
            /\ \A i \in Calls(r, "get_notebook_by_name") :
                  /\ floc[r].id # 0 /\ floc[r].id \in remote.agents
                  /\ \E j \in 1..(i - 1) :
                        /\ log[r][j].call \in {"get_data_agent_by_name",
                                                "create_data_agent"}
                        /\ log[r][j].kind = "ok"
                        /\ log[r][j].value = floc[r].id
            /\ \A i \in Calls(r, "update_notebook") :
                  /\ i > 1
                  /\ log[r][i - 1].call = "get_notebook_by_name"
                  /\ log[r][i - 1].kind = "ok" /\ log[r][i - 1].value # 0
                  /\ log[r][i].arg = <<log[r][i - 1].value>>
            /\ \A i \in Calls(r, "create_notebook") :
                  /\ i > 1
                  /\ log[r][i - 1].call = "get_notebook_by_name"
                  /\ log[r][i - 1].kind = "ok" /\ log[r][i - 1].value = 0
            /\ Cardinality(Calls(r, "update_notebook")
                               \cup Calls(r, "create_notebook")) <= 1
            /\ Cardinality(Calls(r, "schedule_notebook_job")) <= 1
            /\ \A i \in Calls(r, "schedule_notebook_job") :
                  /\ i > 1
                  /\ log[r][i - 1].call \in {"update_notebook", "create_notebook"}
                  /\ log[r][i - 1].kind = "ok"
                  /\ log[r][i].arg = <<floc[r].notebook_id>>
                  /\ floc[r].notebook_id \in remote.notebooks
                  /\ i = Len(log[r])
                  /\ log[r][i].kind = "ok" =>
                        IF JobStatus(log[r][i].value) = "Completed"
                        THEN fpc[r] = "returned"
                        ELSE /\ fpc[r] = "raised"
                             /\ floc[r].raised = "FabricApiError"
            /\ fpc[r] = "returned" =>
                  /\ LastCall(r).call = "schedule_notebook_job"
                  /\ LastCall(r).kind = "ok"
                  /\ floc[r].job_status = "Completed"
                  /\ floc[r].result = floc[r].id
                  /\ floc[r].result \in remote.agents
            /\ fpc[r] = "raised" => floc[r].raised = "FabricApiError"

\* the first run created the agent and the notebook and raised because the
\* job failed; the second run found the agent, which is still there,
\* updated the notebook and returned the agent after a completed job
C21_Witness ==
    /\ script = "setup_data_agent"
    /\ fpc[1] = "raised" /\ floc[1].job_status = "Failed"
    /\ floc[1].raised = "FabricApiError"
    /\ Calls(1, "create_data_agent") = {2}
    /\ Calls(1, "create_notebook") # {}
    /\ fpc[2] = "returned" /\ floc[2].result = 1
    /\ log[2][1].value = 1
    /\ Calls(2, "create_data_agent") = {}
    /\ Calls(2, "update_notebook") # {}
    /\ remote.agents = {1}

====
